---- MODULE Spec2Model ----
(***************************************************************************)
(* Group payment tracker (First.py): the members table, the payments       *)
(* ledger, the sqlite_sequence counter of the AUTOINCREMENT key, the meta  *)
(* watermark, and the functions and form handlers that change them.        *)
(*                                                                         *)
(* Spec     : one session, every function or handler runs to completion.   *)
(* ConcSpec : two sessions on the same database, interleaved one SQL       *)
(*            statement at a time.                                         *)
(***************************************************************************)
EXTENDS Integers, Sequences, FiniteSets

VARIABLES
    members,    \* table members : set of rows [id, name, phone, amount]
    payments,   \* table payments: set of rows [id, member_id, month, year, status, amount, last_updated]
    seq,        \* sqlite_sequence.seq of 'payments' (0: no such row)
    meta,       \* meta['last_run_month'] (NoValue: no such row)
    clock,      \* datetime.now(): [month, year]
    minute,     \* datetime.now(): day and time of day
    last,       \* history: the operation that ran last
    everIds,    \* history: every member id that was ever stored
    maxPid,     \* history: the largest payments.id ever inserted
    maxPidClear,\* history: the largest payments.id inserted since the last clear_all_data
    pc,         \* ConcSpec: the statement each session executes next
    loc,        \* ConcSpec: the local variables of each session
    calls       \* how many functions have been called (Spec: clock changes too)

vars == <<members, payments, seq, meta, clock, minute, last, everIds, maxPid, maxPidClear, pc, loc, calls>>

----------------------------------------------------------------------------
(* Bounds of the model *)

NumIds == 2          \* how many ids random.randint may draw
MaxAdvance == 1      \* how many times the month changes
MaxMinute == 1       \* how many times the time of day changes
MaxOps == 5          \* Spec: how many functions, handlers and clock changes run in all
MaxCalls == 3        \* ConcSpec: how many functions the sessions call in all

(* Program constants *)

IdLo == 10000        \* random.randint(10000, 99999)
DefaultAmount == 250 \* amt = float(row[0]) if row else 250.0

IdRange == IdLo .. (IdLo + NumIds - 1)
Amounts == {250, 300}
\* what is typed into "Full name" and "Phone"
RawNames == {<<" ">>, <<" ", "a", " ">>}
RawPhones == {<<"5", " ">>}
NULL == <<"NULL">>       \* SQL NULL / Python None in a text column
NoValue == << >>         \* fetchone() returned None
StartClock == [month |-> 11, year |-> 2024]

----------------------------------------------------------------------------
(* Helpers *)

SetMax(S) == CHOOSE x \in S : \A y \in S : y <= x
SetMin(S) == CHOOSE x \in S : \A y \in S : x <= y

RECURSIVE SortedSeq(_)
\* the elements of a set of integers in ascending order
SortedSeq(S) == IF S = {} THEN << >> ELSE <<SetMin(S)>> \o SortedSeq(S \ {SetMin(S)})

IsSpace(ch) == ch = " "

RECURSIVE LStrip(_)
LStrip(s) == IF s # << >> /\ IsSpace(Head(s)) THEN LStrip(Tail(s)) ELSE s

RECURSIVE RStrip(_)
RStrip(s) == IF s # << >> /\ IsSpace(s[Len(s)]) THEN RStrip(SubSeq(s, 1, Len(s) - 1)) ELSE s

\* str.strip()
Strip(s) == RStrip(LStrip(s))

\* the ASCII codes of n written with w decimal digits
RECURSIVE Digits(_, _)
Digits(n, w) == IF w = 0 THEN << >> ELSE Digits(n \div 10, w - 1) \o <<48 + (n % 10)>>

\* f"{month:02d}-{year}"
cur_val(month, year) == Digits(month, 2) \o <<45>> \o Digits(year, 4)

\* strftime("%b"): the ASCII codes of the month's abbreviation
MonthAbbr(m) ==
    CASE m = 1 -> <<74, 97, 110>>  [] m = 2 -> <<70, 101, 98>>
      [] m = 3 -> <<77, 97, 114>>  [] m = 4 -> <<65, 112, 114>>
      [] m = 5 -> <<77, 97, 121>>  [] m = 6 -> <<74, 117, 110>>
      [] m = 7 -> <<74, 117, 108>> [] m = 8 -> <<65, 117, 103>>
      [] m = 9 -> <<83, 101, 112>> [] m = 10 -> <<79, 99, 116>>
      [] m = 11 -> <<78, 111, 118>> [] OTHER -> <<68, 101, 99>>

\* datetime(year, month, 1).strftime("%b %Y")
month_label(month, year) == MonthAbbr(month) \o <<32>> \o Digits(year, 4)

RECURSIVE StrLess(_, _)
\* a < b for two strings, as Python and pandas order them
StrLess(a, b) ==
    IF b = << >> THEN FALSE
    ELSE IF a = << >> THEN TRUE
    ELSE IF Head(a) # Head(b) THEN Head(a) < Head(b)
    ELSE StrLess(Tail(a), Tail(b))

\* datetime.now().strftime("%d/%m/%Y, %I:%M %p")
now_str == <<clock.month, clock.year, minute>>

\* the calendar month after c
NextMonth(c) == IF c.month = 12 THEN [month |-> 1, year |-> c.year + 1]
                ELSE [month |-> c.month + 1, year |-> c.year]

MonthsSinceStart == (clock.year - StartClock.year) * 12 + clock.month - StartClock.month

----------------------------------------------------------------------------
(* The database as a value, and the SQL statements on it *)

DB == [members |-> members, payments |-> payments, seq |-> seq, meta |-> meta]

MemberIds(ms) == {r.id : r \in ms}

\* SELECT 1 FROM members WHERE id=?
MemberExists(ms, id) == \E r \in ms : r.id = id

\* SELECT amount FROM members WHERE id=?  (fetchone)
MemberRow(ms, id) == CHOOSE r \in ms : r.id = id

\* SELECT 1 FROM payments WHERE member_id=? AND month=? AND year=?
PaymentExists(ps, mid, month, year) ==
    \E r \in ps : r.member_id = mid /\ r.month = month /\ r.year = year

RowsOf(ps, mid, month, year) ==
    {r \in ps : r.member_id = mid /\ r.month = month /\ r.year = year}

\* variant: the key of a plain INTEGER PRIMARY KEY column, one more than the
\* largest key in the table
AutoIncrementPlain(db) ==
    IF db.payments = {} THEN 1 ELSE SetMax({r.id : r \in db.payments}) + 1

\* the key an INTEGER PRIMARY KEY AUTOINCREMENT column gives the next row: one
\* more than the largest key the table holds or sqlite_sequence remembers
AutoIncrement(db) ==
    LET top == IF db.payments = {} THEN 0 ELSE SetMax({r.id : r \in db.payments})
    IN  (IF db.seq > top THEN db.seq ELSE top) + 1

\* INSERT INTO payments (member_id, month, year, status, amount, last_updated) VALUES (...)
InsertPayment(db, mid, month, year, status, amt, ts) ==
    LET newid == AutoIncrement(db)
        row == [id |-> newid, member_id |-> mid, month |-> month, year |-> year,
                status |-> status, amount |-> amt, last_updated |-> ts]
    IN  [db EXCEPT !.payments = @ \cup {row}, !.seq = newid]

\* INSERT INTO members (id, name, phone, amount) VALUES (...), the primary key
\* being free
InsertMember(db, mid, name, phone, amount) ==
    [db EXCEPT !.members = @ \cup
        {[id |-> mid, name |-> name, phone |-> phone, amount |-> amount]}]

\* UPDATE members SET name=?, phone=?, amount=? WHERE id=?
UpdateMemberRow(db, mid, name, phone, amount) ==
    [db EXCEPT !.members =
        {IF r.id = mid THEN [r EXCEPT !.name = name, !.phone = phone, !.amount = amount]
                       ELSE r : r \in @}]

\* UPDATE payments SET amount=?, last_updated=? WHERE member_id=? AND month=? AND year=?
UpdatePaymentAmount(db, mid, month, year, amount, ts) ==
    [db EXCEPT !.payments =
        {IF r.member_id = mid /\ r.month = month /\ r.year = year
            THEN [r EXCEPT !.amount = amount, !.last_updated = ts]
            ELSE r : r \in @}]

\* UPDATE payments SET status=?, last_updated=? WHERE member_id=? AND month=? AND year=?
UpdatePaymentStatus(db, mid, month, year, status, ts) ==
    [db EXCEPT !.payments =
        {IF r.member_id = mid /\ r.month = month /\ r.year = year
            THEN [r EXCEPT !.status = status, !.last_updated = ts]
            ELSE r : r \in @}]

\* DELETE FROM payments WHERE member_id=?
DeletePaymentsOf(db, mid) ==
    [db EXCEPT !.payments = {r \in @ : r.member_id # mid}]

\* DELETE FROM members WHERE id=?
DeleteMemberRow(db, mid) ==
    [db EXCEPT !.members = {r \in @ : r.id # mid}]

----------------------------------------------------------------------------
(* The functions of First.py, each run to completion on a database value *)

\* variant: the sampled id is returned without the SELECT
generate_unique_id_any(ms) == IdRange

\* generate_unique_id(): the ids the sampling loop can return
generate_unique_id(ms) == {i \in IdRange : ~MemberExists(ms, i)}

\* ensure_payments_for_member_month(member_id), clock read as (month, year), now_str() as ts
ensure_payments_for_member_month(db, member_id, month, year, ts) ==
    IF PaymentExists(db.payments, member_id, month, year) THEN db
    ELSE LET amt == IF MemberExists(db.members, member_id)
                    THEN MemberRow(db.members, member_id).amount
                    ELSE DefaultAmount
         IN  InsertPayment(db, member_id, month, year, "Unpaid", amt, ts)

\* variant of the loop: it ends at the first member that has a row
RECURSIVE EnsureLoopBreak(_, _, _, _, _)
EnsureLoopBreak(db, todo, month, year, ts) ==
    IF todo = << >> THEN db
    ELSE IF PaymentExists(db.payments, Head(todo)[1], month, year) THEN db
    ELSE EnsureLoopBreak(InsertPayment(db, Head(todo)[1], month, year, "Unpaid", Head(todo)[2], ts),
                         Tail(todo), month, year, ts)

\* variant of the loop: it inserts without the SELECT
RECURSIVE EnsureLoopNoCheck(_, _, _, _, _)
EnsureLoopNoCheck(db, todo, month, year, ts) ==
    IF todo = << >> THEN db
    ELSE EnsureLoopNoCheck(InsertPayment(db, Head(todo)[1], month, year, "Unpaid", Head(todo)[2], ts),
                           Tail(todo), month, year, ts)

\* the for loop of ensure_payments_for_month over the fetched (id, amount) rows
RECURSIVE EnsureLoop(_, _, _, _, _)
EnsureLoop(db, todo, month, year, ts) ==
    IF todo = << >> THEN db
    ELSE LET mid == Head(todo)[1]
             amt == Head(todo)[2]
             d2 == IF PaymentExists(db.payments, mid, month, year) THEN db
                   ELSE InsertPayment(db, mid, month, year, "Unpaid", amt, ts)
         IN  EnsureLoop(d2, Tail(todo), month, year, ts)

\* SELECT id, amount FROM members  (fetchall, in rowid order)
SelectMembers(ms) ==
    LET ids == SortedSeq(MemberIds(ms))
    IN  [i \in 1 .. Len(ids) |-> <<ids[i], MemberRow(ms, ids[i]).amount>>]

\* variants of ensure_payments_for_month() with the loops above
ensure_payments_for_month_break(db, month, year, ts) ==
    EnsureLoopBreak(db, SelectMembers(db.members), month, year, ts)

ensure_payments_for_month_nocheck(db, month, year, ts) ==
    EnsureLoopNoCheck(db, SelectMembers(db.members), month, year, ts)

\* ensure_payments_for_month()
ensure_payments_for_month(db, month, year, ts) ==
    EnsureLoop(db, SelectMembers(db.members), month, year, ts)

\* add_member(name, phone, amount) with the id generate_unique_id() returned
add_member(db, mid, name, phone, amount, month, year, ts) ==
    IF MemberExists(db.members, mid)
    THEN db   \* sqlite3.IntegrityError: the primary key is taken, the call ends
    ELSE ensure_payments_for_member_month(InsertMember(db, mid, name, phone, amount),
                                          mid, month, year, ts)

\* variant: the UPDATE of payments without "AND month=? AND year=?"
update_member_all_periods(db, member_id, name, phone, amount, month, year, ts) ==
    [UpdateMemberRow(db, member_id, name, phone, amount) EXCEPT !.payments =
        {IF r.member_id = member_id
            THEN [r EXCEPT !.amount = amount, !.last_updated = ts]
            ELSE r : r \in @}]

\* update_member(member_id, name, phone, amount)
update_member(db, member_id, name, phone, amount, month, year, ts) ==
    UpdatePaymentAmount(UpdateMemberRow(db, member_id, name, phone, amount),
                        member_id, month, year, amount, ts)

\* variant: only DELETE FROM members
delete_member_no_cascade(db, member_id) ==
    DeleteMemberRow(db, member_id)

\* delete_member(member_id)
delete_member(db, member_id) ==
    DeleteMemberRow(DeletePaymentsOf(db, member_id), member_id)

\* clear_all_data(): DELETE FROM payments; DELETE FROM members;
\* DELETE FROM sqlite_sequence WHERE name='payments'
clear_all_data(db) ==
    [db EXCEPT !.payments = {}, !.members = {}, !.seq = 0]

\* mark_paid_for_member_current_month(member_id)
mark_paid_for_member_current_month(db, member_id, month, year, ts) ==
    UpdatePaymentStatus(db, member_id, month, year, "Paid", ts)

\* ensure_monthly_rollover()
ensure_monthly_rollover(db, month, year, ts) ==
    IF db.meta # cur_val(month, year)
    THEN [ensure_payments_for_month(db, month, year, ts) EXCEPT !.meta = cur_val(month, year)]
    ELSE db

\* SELECT status FROM payments WHERE member_id=? AND month=? AND year=?  (fetchone),
\* "Unpaid" when there is no row
cur_status(ps, sel_id, month, year) ==
    IF PaymentExists(ps, sel_id, month, year)
    THEN (CHOOSE r \in RowsOf(ps, sel_id, month, year) :
            \A q \in RowsOf(ps, sel_id, month, year) : r.id <= q.id).status
    ELSE "Unpaid"

\* variant: the UPDATE sets the amount to the default as well
toggle_status_resets_amount(db, sel_id, month, year, ts) ==
    ensure_payments_for_month(
        [db EXCEPT !.payments =
            {IF r.member_id = sel_id /\ r.month = month /\ r.year = year
                THEN [r EXCEPT !.status = IF @ = "Paid" THEN "Unpaid" ELSE "Paid",
                               !.amount = DefaultAmount, !.last_updated = ts]
                ELSE r : r \in @}],
        month, year, ts)

\* the toggle button of the admin Members tab: "Mark as Unpaid" when the row is
\* Paid, "Mark as Paid" otherwise, then ensure_payments_for_month()
toggle_status(db, sel_id, month, year, ts) ==
    IF cur_status(db.payments, sel_id, month, year) = "Paid"
    THEN ensure_payments_for_month(
            UpdatePaymentStatus(db, sel_id, month, year, "Unpaid", ts), month, year, ts)
    ELSE ensure_payments_for_month(
            mark_paid_for_member_current_month(db, sel_id, month, year, ts), month, year, ts)

----------------------------------------------------------------------------
(* State machine *)

Idle == [op |-> "idle"]
Sessions == {1, 2}
RolloverOps == {"ensure_monthly_rollover", "ensure_payments_for_month"}

\* the history after operation name; again: a rollover call that directly
\* follows a rollover call
Op(name) == [op |-> name, again |-> name \in RolloverOps /\ last.op \in RolloverOps]

Init ==
    /\ members = {}
    /\ payments = {}
    /\ seq = 0
    /\ meta = NoValue
    /\ clock = StartClock
    /\ minute = 0
    /\ last = [op |-> "init", again |-> FALSE]
    /\ everIds = {}
    /\ maxPid = 0
    /\ maxPidClear = 0
    /\ pc = [s \in Sessions |-> "idle"]
    /\ loc = [s \in Sessions |-> Idle]
    /\ calls = 0

\* the largest id among the rows of ps and n
TopId(ps, n) == SetMax({r.id : r \in ps} \cup {n})

\* the database becomes d; the history variables follow (cleared: the step
\* completes clear_all_data)
Store(d, cleared) ==
    /\ members' = d.members
    /\ payments' = d.payments
    /\ seq' = d.seq
    /\ meta' = d.meta
    /\ everIds' = everIds \cup MemberIds(d.members)
    /\ maxPid' = TopId(d.payments, maxPid)
    /\ maxPidClear' = IF cleared THEN 0
                      ELSE TopId({r \in d.payments : r.id \notin {q.id : q \in payments}},
                                 maxPidClear)

\* one function or handler run to completion by the only session
Done(d, name) ==
    /\ calls < MaxOps
    /\ calls' = calls + 1
    /\ Store(d, name = "clear_all_data")
    /\ last' = Op(name)
    /\ UNCHANGED <<clock, minute, pc, loc>>

\* the "Add Member" form
AddForm(name, phone, amount) ==
    IF Strip(name) = << >>
    THEN Done(DB, "add_rejected")
    ELSE \E mid \in generate_unique_id(members) :
            Done(add_member(DB, mid, Strip(name),
                            IF phone # << >> THEN Strip(phone) ELSE NULL, amount,
                            clock.month, clock.year, now_str),
                 "add_member")

\* the "Save Changes" form of the selected member
EditForm(sel_id, new_name, new_phone, new_amount) ==
    /\ sel_id \in MemberIds(members)
    /\ Done(update_member(DB, sel_id, Strip(new_name), Strip(new_phone), new_amount,
                          clock.month, clock.year, now_str),
            "update_member")

\* the "Mark as Paid" / "Mark as Unpaid" button of the selected member
TogglePaid(sel_id) ==
    /\ sel_id \in MemberIds(members)
    /\ Done(toggle_status(DB, sel_id, clock.month, clock.year, now_str), "toggle")

\* the "Delete Member" button of the selected member
DeleteMember(member_id) ==
    /\ member_id \in MemberIds(members)
    /\ Done(delete_member(DB, member_id), "delete_member")

\* the "Delete All Data" button
ClearAllData ==
    Done(clear_all_data(DB), "clear_all_data")

\* a page that calls ensure_payments_for_month() when it loads
EnsurePaymentsForMonth ==
    Done(ensure_payments_for_month(DB, clock.month, clock.year, now_str),
         "ensure_payments_for_month")

\* ensure_monthly_rollover(), run at the top of every script run
EnsureMonthlyRollover ==
    Done(ensure_monthly_rollover(DB, clock.month, clock.year, now_str),
         "ensure_monthly_rollover")

\* the calendar reaches the next month
AdvanceMonth ==
    /\ MonthsSinceStart < MaxAdvance
    /\ clock' = NextMonth(clock)
    /\ last' = Op("advance")
    /\ calls < MaxOps
    /\ calls' = calls + 1
    /\ UNCHANGED <<members, payments, seq, meta, minute, everIds, maxPid, maxPidClear, pc, loc>>

\* time passes inside the month
Tick ==
    /\ minute < MaxMinute
    /\ minute' = minute + 1
    /\ last' = Op("tick")
    /\ calls < MaxOps
    /\ calls' = calls + 1
    /\ UNCHANGED <<members, payments, seq, meta, clock, everIds, maxPid, maxPidClear, pc, loc>>

Next ==
    \/ \E n \in RawNames, p \in RawPhones, a \in Amounts : AddForm(n, p, a)
    \/ \E i \in IdRange, n \in RawNames, p \in RawPhones, a \in Amounts : EditForm(i, n, p, a)
    \/ \E i \in IdRange : TogglePaid(i)
    \/ \E i \in IdRange : DeleteMember(i)
    \/ ClearAllData
    \/ EnsurePaymentsForMonth
    \/ EnsureMonthlyRollover
    \/ AdvanceMonth
    \/ Tick

Spec == Init /\ [][Next]_vars

----------------------------------------------------------------------------
(* Two sessions on the same database, one SQL statement at a time.  A       *)
(* statement and the fetch of its result are one step; what a session has   *)
(* fetched or computed stays in its local variables loc[s].                 *)

ConcName == <<"a">>
ConcPhone == NULL

\* session s moves to statement p with local variables l, the database becomes d
Step(s, p, l, d) ==
    /\ Store(d, pc[s] = "clr_seq")
    /\ pc' = [pc EXCEPT ![s] = p]
    /\ loc' = [loc EXCEPT ![s] = IF p = "idle" THEN Idle ELSE l]
    /\ calls' = IF pc[s] = "idle" THEN calls + 1 ELSE calls
    /\ calls' <= MaxCalls
    /\ UNCHANGED <<clock, minute, last>>

\* add_member: generate_unique_id() returns an id that no member has now
AddGenerate(s, amount) ==
    /\ pc[s] = "idle"
    /\ \E mid \in generate_unique_id(members) :
          Step(s, "add_insert", [op |-> "add_member", mid |-> mid, amount |-> amount], DB)

\* add_member: INSERT INTO members; commit.  A taken primary key raises
\* sqlite3.IntegrityError and the script run ends
AddInsert(s) ==
    /\ pc[s] = "add_insert"
    /\ IF MemberExists(members, loc[s].mid)
       THEN Step(s, "idle", Idle, DB)
       ELSE Step(s, "epmm_check", [op |-> "add_member", mid |-> loc[s].mid],
                 InsertMember(DB, loc[s].mid, ConcName, ConcPhone, loc[s].amount))

\* ensure_payments_for_member_month(member_id) called on any id
EnsureMemberCall(s, member_id) ==
    /\ pc[s] = "idle"
    /\ Step(s, "epmm_check", [op |-> "ensure_member", mid |-> member_id], DB)

\* ensure_payments_for_member_month: the clock is read; SELECT 1 FROM payments ...
EnsureMemberCheck(s) ==
    /\ pc[s] = "epmm_check"
    /\ IF PaymentExists(payments, loc[s].mid, clock.month, clock.year)
       THEN Step(s, "idle", Idle, DB)
       ELSE Step(s, "epmm_amount",
                 [op |-> loc[s].op, mid |-> loc[s].mid, month |-> clock.month, year |-> clock.year],
                 DB)

\* ensure_payments_for_member_month: SELECT amount FROM members WHERE id=?
EnsureMemberAmount(s) ==
    /\ pc[s] = "epmm_amount"
    /\ Step(s, "epmm_insert",
            [op |-> loc[s].op, mid |-> loc[s].mid, month |-> loc[s].month, year |-> loc[s].year,
             amt |-> IF MemberExists(members, loc[s].mid)
                     THEN MemberRow(members, loc[s].mid).amount ELSE DefaultAmount],
            DB)

\* ensure_payments_for_member_month: INSERT INTO payments; commit
EnsureMemberInsert(s) ==
    /\ pc[s] = "epmm_insert"
    /\ Step(s, "idle", Idle,
            InsertPayment(DB, loc[s].mid, loc[s].month, loc[s].year, "Unpaid", loc[s].amt, now_str))

\* update_member: UPDATE members ...; commit
UpdateMembers(s, member_id, amount) ==
    /\ pc[s] = "idle"
    /\ member_id \in MemberIds(members)
    /\ Step(s, "upd_payments", [op |-> "update_member", mid |-> member_id, amount |-> amount],
            UpdateMemberRow(DB, member_id, ConcName, ConcPhone, amount))

\* update_member: the clock is read; UPDATE payments ...; commit
UpdatePayments(s) ==
    /\ pc[s] = "upd_payments"
    /\ Step(s, "idle", Idle,
            UpdatePaymentAmount(DB, loc[s].mid, clock.month, clock.year, loc[s].amount, now_str))

\* delete_member: DELETE FROM payments WHERE member_id=?
DeletePayments(s, member_id) ==
    /\ pc[s] = "idle"
    /\ member_id \in MemberIds(members)
    /\ Step(s, "del_member", [op |-> "delete_member", mid |-> member_id],
            DeletePaymentsOf(DB, member_id))

\* delete_member: DELETE FROM members WHERE id=?; commit
DeleteMembers(s) ==
    /\ pc[s] = "del_member"
    /\ Step(s, "idle", Idle, DeleteMemberRow(DB, loc[s].mid))

\* clear_all_data: DELETE FROM payments
ClearPayments(s) ==
    /\ pc[s] = "idle"
    /\ Step(s, "clr_members", [op |-> "clear_all_data"], [DB EXCEPT !.payments = {}])

\* clear_all_data: DELETE FROM members
ClearMembers(s) ==
    /\ pc[s] = "clr_members"
    /\ Step(s, "clr_seq", loc[s], [DB EXCEPT !.members = {}])

\* clear_all_data: DELETE FROM sqlite_sequence WHERE name='payments'; commit
ClearSequence(s) ==
    /\ pc[s] = "clr_seq"
    /\ Step(s, "idle", Idle, [DB EXCEPT !.seq = 0])

\* where ensure_payments_for_month returns to: the statement after the call
\* in ensure_monthly_rollover, or the end of the script run
Return(l) == IF l.op = "rollover" THEN "emr_meta" ELSE "idle"

\* ensure_payments_for_month: the clock is read; SELECT id, amount FROM members
EnsureScan(s, l) ==
    LET todo == SelectMembers(members)
        l2 == [op |-> l.op, cur |-> l.cur, month |-> clock.month, year |-> clock.year,
               todo |-> todo]
    IN  Step(s, IF todo = << >> THEN Return(l) ELSE "epm_check", l2, DB)

\* a page load calls ensure_payments_for_month()
EnsureMonthCall(s) ==
    /\ pc[s] = "idle"
    /\ EnsureScan(s, [op |-> "ensure_month", cur |-> NoValue])

\* ensure_payments_for_month called by ensure_monthly_rollover or after a toggle
EnsureMonthScan(s) ==
    /\ pc[s] = "epm_scan"
    /\ EnsureScan(s, loc[s])

\* ensure_payments_for_month: SELECT 1 FROM payments ... for the next fetched member
EnsureMonthCheck(s) ==
    /\ pc[s] = "epm_check"
    /\ IF PaymentExists(payments, Head(loc[s].todo)[1], loc[s].month, loc[s].year)
       THEN Step(s, IF Tail(loc[s].todo) = << >> THEN Return(loc[s]) ELSE "epm_check",
                 [loc[s] EXCEPT !.todo = Tail(@)], DB)
       ELSE Step(s, "epm_insert", loc[s], DB)

\* ensure_payments_for_month: INSERT INTO payments ... for that member
EnsureMonthInsert(s) ==
    /\ pc[s] = "epm_insert"
    /\ Step(s, IF Tail(loc[s].todo) = << >> THEN Return(loc[s]) ELSE "epm_check",
            [loc[s] EXCEPT !.todo = Tail(@)],
            InsertPayment(DB, Head(loc[s].todo)[1], loc[s].month, loc[s].year, "Unpaid",
                          Head(loc[s].todo)[2], now_str))

\* ensure_monthly_rollover: the clock is read; SELECT value FROM meta; compare
RolloverRead(s) ==
    /\ pc[s] = "idle"
    /\ meta # cur_val(clock.month, clock.year)
    /\ Step(s, "epm_scan", [op |-> "rollover", cur |-> cur_val(clock.month, clock.year)], DB)

\* ensure_monthly_rollover: INSERT OR REPLACE INTO meta ...; commit
RolloverWrite(s) ==
    /\ pc[s] = "emr_meta"
    /\ Step(s, "idle", Idle, [DB EXCEPT !.meta = loc[s].cur])

\* the toggle button: the clock is read; SELECT status FROM payments ...
ToggleRead(s, sel_id) ==
    /\ pc[s] = "idle"
    /\ sel_id \in MemberIds(members)
    /\ Step(s, "tog_update",
            [op |-> "toggle", mid |-> sel_id, month |-> clock.month, year |-> clock.year,
             status |-> IF cur_status(payments, sel_id, clock.month, clock.year) = "Paid"
                        THEN "Unpaid" ELSE "Paid"],
            DB)

\* the toggle button: UPDATE payments SET status=...; commit; then
\* ensure_payments_for_month().  "Mark as Unpaid" uses the month read before,
\* mark_paid_for_member_current_month reads the clock again
ToggleUpdate(s) ==
    /\ pc[s] = "tog_update"
    /\ Step(s, "epm_scan", [op |-> "toggle", cur |-> NoValue],
            IF loc[s].status = "Unpaid"
            THEN UpdatePaymentStatus(DB, loc[s].mid, loc[s].month, loc[s].year, "Unpaid", now_str)
            ELSE mark_paid_for_member_current_month(DB, loc[s].mid, clock.month, clock.year, now_str))

\* the calendar reaches the next month while sessions run
ConcAdvanceMonth ==
    /\ MonthsSinceStart < MaxAdvance
    /\ clock' = NextMonth(clock)
    /\ UNCHANGED <<members, payments, seq, meta, minute, last, everIds, maxPid, maxPidClear, pc, loc, calls>>

ConcNext ==
    \/ \E s \in Sessions, a \in Amounts : AddGenerate(s, a)
    \/ \E s \in Sessions : AddInsert(s)
    \/ \E s \in Sessions, i \in IdRange : EnsureMemberCall(s, i)
    \/ \E s \in Sessions : EnsureMemberCheck(s)
    \/ \E s \in Sessions : EnsureMemberAmount(s)
    \/ \E s \in Sessions : EnsureMemberInsert(s)
    \/ \E s \in Sessions, i \in IdRange, a \in Amounts : UpdateMembers(s, i, a)
    \/ \E s \in Sessions : UpdatePayments(s)
    \/ \E s \in Sessions, i \in IdRange : DeletePayments(s, i)
    \/ \E s \in Sessions : DeleteMembers(s)
    \/ \E s \in Sessions : ClearPayments(s)
    \/ \E s \in Sessions : ClearMembers(s)
    \/ \E s \in Sessions : ClearSequence(s)
    \/ \E s \in Sessions : EnsureMonthCall(s)
    \/ \E s \in Sessions : EnsureMonthScan(s)
    \/ \E s \in Sessions : EnsureMonthCheck(s)
    \/ \E s \in Sessions : EnsureMonthInsert(s)
    \/ \E s \in Sessions : RolloverRead(s)
    \/ \E s \in Sessions : RolloverWrite(s)
    \/ \E s \in Sessions, i \in IdRange : ToggleRead(s, i)
    \/ \E s \in Sessions : ToggleUpdate(s)
    \/ ConcAdvanceMonth

ConcSpec == Init /\ [][ConcNext]_vars

----------------------------------------------------------------------------
(* The dashboard's trend series *)

RECURSIVE SumAmounts(_)
\* Series.sum() over the amount column of a set of rows
SumAmounts(rows) ==
    IF rows = {} THEN 0
    ELSE LET r == CHOOSE x \in rows : TRUE IN r.amount + SumAmounts(rows \ {r})

PaidRows(ps) == {r \in ps : r.status = "Paid"}

RECURSIVE SortLabels(_)
\* the labels of a set in ascending string order
SortLabels(L) ==
    IF L = {} THEN << >>
    ELSE LET lo == CHOOSE a \in L : \A b \in L : a = b \/ StrLess(a, b)
         IN  <<lo>> \o SortLabels(L \ {lo})

\* payments_df[status == 'Paid'].groupby('month_label')['amount'].sum()
\*     .reset_index().sort_values(by='month_label')
trend(ps) ==
    LET labels == SortLabels({month_label(r.month, r.year) : r \in PaidRows(ps)})
    IN  [i \in 1 .. Len(labels) |->
            [month_label |-> labels[i],
             amount |-> SumAmounts({r \in PaidRows(ps) :
                                       month_label(r.month, r.year) = labels[i]})]]

----------------------------------------------------------------------------
(* Claims *)

Current(r) == r.month = clock.month /\ r.year = clock.year
PaymentIds(ps) == {r.id : r \in ps}
NewRows == {r \in payments' : r.id \notin PaymentIds(payments)}
DBNext == [members |-> members', payments |-> payments', seq |-> seq', meta |-> meta']

\* C1: no two rows of the payments ledger share the same (member_id, month,
\* year), also when two sessions interleave statement by statement.
NoDuplicateLedgerRows ==
    \A r \in payments, q \in payments :
        (r.member_id = q.member_id /\ r.month = q.month /\ r.year = q.year) => r = q

\* C2: immediately after ensure_monthly_rollover() returns, every member has
\* exactly one ledger row for the current (month, year).
RolloverComplete ==
    last.op = "ensure_monthly_rollover" =>
        \A m \in members :
            Cardinality(RowsOf(payments, m.id, clock.month, clock.year)) = 1

\* C2 witness: a rollover has returned in a later month with two members stored,
\* one of them billed in an earlier month as well.
RolloverCompleteWitness ==
    /\ last.op = "ensure_monthly_rollover"
    /\ Cardinality(members) = 2
    /\ MonthsSinceStart >= 1
    /\ \E r \in payments : ~Current(r)
    /\ \A m \in members : PaymentExists(payments, m.id, clock.month, clock.year)

\* C3: a call of ensure_monthly_rollover() or ensure_payments_for_month() that
\* directly follows such a call in the same period changes neither the members
\* table nor the payments ledger.
RolloverIdempotent ==
    [][(last.op \in RolloverOps /\ last'.op \in RolloverOps
          /\ (EnsureMonthlyRollover \/ EnsurePaymentsForMonth))
        => (members' = members /\ payments' = payments)]_vars

\* C3 witness: a rollover call has directly followed a rollover call while
\* members and ledger rows exist.
RolloverIdempotentWitness ==
    /\ last.op \in RolloverOps
    /\ last.again
    /\ members # {}
    /\ \E r \in payments : Current(r)

\* C4: update_member sets the amount of the member's current-period row to the
\* new due amount and leaves the amount and status of every row of another
\* period, and of every other member, as they were.
BillingSnapshot ==
    [][\A i \in IdRange, n \in RawNames, p \in RawPhones, a \in Amounts :
        (/\ last'.op = "update_member"
         /\ \E m \in members' : m.id = i /\ m.amount = a /\ m.name = Strip(n)
         /\ EditForm(i, n, p, a)) =>
            /\ PaymentIds(payments') = PaymentIds(payments)
            /\ \A r \in payments :
                 IF r.member_id = i /\ Current(r)
                 THEN [r EXCEPT !.amount = a, !.last_updated = now_str] \in payments'
                 ELSE r \in payments']_vars

\* C4 witness: a member was just edited; its current-period row carries the
\* new amount and a row of an earlier period still carries the old one.
BillingSnapshotWitness ==
    /\ last.op = "update_member"
    /\ \E m \in members :
         /\ \E r \in payments : r.member_id = m.id /\ Current(r) /\ r.amount = m.amount
         /\ \E r \in payments : r.member_id = m.id /\ ~Current(r) /\ r.amount # m.amount
    /\ Cardinality(members) = 2

\* C5: after delete_member(M) there is no member M and no ledger row of M, and
\* every other member and every ledger row of every other member is as it was.
CascadeDelete ==
    [][\A i \in IdRange :
        (last'.op = "delete_member" /\ DeleteMember(i)) =>
            /\ members' = {m \in members : m.id # i}
            /\ payments' = {r \in payments : r.member_id # i}
            /\ ~MemberExists(members', i)
            /\ \A r \in payments' : r.member_id # i]_vars

\* C5 witness: a member with ledger rows was just deleted and another member
\* with ledger rows remains.
CascadeDeleteWitness ==
    /\ last.op = "delete_member"
    /\ Cardinality(members) = 1
    /\ payments # {}
    /\ \E i \in everIds : ~MemberExists(members, i) /\ maxPidClear > Cardinality(payments)

\* the periods that have a Paid row, earliest first
RECURSIVE ChronologicalPeriods(_)
ChronologicalPeriods(P) ==
    IF P = {} THEN << >>
    ELSE LET lo == CHOOSE a \in P : \A b \in P :
                      a[2] < b[2] \/ (a[2] = b[2] /\ a[1] <= b[1])
         IN  <<lo>> \o ChronologicalPeriods(P \ {lo})

\* C6: the trend series has one entry per period that has a Paid row, each the
\* sum of the Paid amounts of that period, ordered chronologically by period.
TrendChronological ==
    LET periods == ChronologicalPeriods({<<r.month, r.year>> : r \in PaidRows(payments)})
    IN  trend(payments) =
            [i \in 1 .. Len(periods) |->
                [month_label |-> month_label(periods[i][1], periods[i][2]),
                 amount |-> SumAmounts({r \in PaidRows(payments) :
                                           <<r.month, r.year>> = periods[i]})]]

\* C7 (as claimed): the id add_member assigns differs from the id of every
\* member that exists now or that ever existed.
MemberIdsNeverReused ==
    [][\A i \in MemberIds(members') \ MemberIds(members) : i \notin everIds]_vars

\* C7 (amended): add_member stores exactly one more member, under an id that no
\* member stored at that time has, and leaves the stored members as they were;
\* no two stored members share an id.
MemberIdsUniqueAmongStored ==
    [][\A n \in RawNames, p \in RawPhones, a \in Amounts :
        (last'.op = "add_member" /\ AddForm(n, p, a)) =>
            /\ members \subseteq members'
            /\ Cardinality(members') = Cardinality(members) + 1
            /\ \A x \in members', y \in members' : x.id = y.id => x = y]_vars

\* C7 witness: add_member has just stored a second member.
MemberIdsUniqueWitness ==
    /\ last.op = "add_member"
    /\ Cardinality(members) = 2
    /\ Cardinality(MemberIds(members)) = 2

\* C8 (as claimed): every newly inserted payments row gets an id greater than
\* the id of every payments row ever inserted before, clear_all_data included.
PaymentIdsNeverReused ==
    [][\A r \in NewRows : r.id > maxPid]_vars

\* C8 (amended): every newly inserted payments row gets an id greater than the
\* id of every payments row inserted since the last clear_all_data.
PaymentIdsIncreaseSinceClear ==
    [][\A r \in NewRows : r.id > maxPidClear]_vars

\* C8 witness: a row was just inserted by add_member after rows with smaller
\* ids had been deleted by delete_member, and it carries the largest id.
PaymentIdsIncreaseWitness ==
    /\ last.op = "add_member"
    /\ maxPidClear = maxPid
    /\ \E r \in payments : r.id = maxPidClear
    /\ Cardinality(payments) < maxPidClear
    /\ \E r \in payments : r.last_updated = now_str /\ r.id = maxPidClear

Flip(status) == IF status = "Paid" THEN "Unpaid" ELSE "Paid"

\* C9: the toggle of a member's current-period row changes that row's status
\* and last_updated only: its amount, every other ledger row and the members
\* table stay as they were (a row that appears is a missing current-period row
\* the handler's closing ensure_payments_for_month() inserts), and a second
\* toggle gives the row its former status and amount again.
ToggleIndependence ==
    [][\A i \in IdRange :
        (last'.op = "toggle" /\ PaymentExists(payments, i, clock.month, clock.year)
            /\ TogglePaid(i)) =>
            /\ members' = members
            /\ \A r \in payments :
                 IF r.member_id = i /\ Current(r)
                 THEN /\ [r EXCEPT !.status = Flip(r.status), !.last_updated = now_str]
                            \in payments'
                      /\ \E q \in toggle_status(DBNext, i, clock.month, clock.year, now_str).payments :
                            q.id = r.id /\ q.status = r.status /\ q.amount = r.amount
                 ELSE r \in payments'
            /\ \A q \in NewRows :
                 /\ q.status = "Unpaid" /\ q.month = clock.month /\ q.year = clock.year
                 /\ ~PaymentExists(payments, q.member_id, clock.month, clock.year)
            /\ Cardinality(payments') = Cardinality(payments) + Cardinality(NewRows)]_vars

\* C9 witness: the only member's current-period row was just toggled back to
\* Unpaid at a later time than it was created, with an amount that is not the
\* default one.
ToggleIndependenceWitness ==
    /\ last.op = "toggle"
    /\ Cardinality(members) = 1
    /\ \E m \in members : \E r \in payments :
         /\ r.member_id = m.id /\ Current(r)
         /\ r.status = "Unpaid" /\ r.last_updated = now_str /\ minute > 0
         /\ r.amount # DefaultAmount

\* C10: every stored member has a non-empty name.
NamesNonEmpty ==
    \A m \in members : m.name # << >>

\* C11: every payments row's member_id is the id of a member that currently
\* exists, also when delete_member interleaves with the ensure functions and
\* when ensure_payments_for_member_month is called with an id of no member.
NoOrphanedLedgerRows ==
    \A r \in payments : MemberExists(members, r.member_id)

\* C12: the member insert of add_member and the insert of its current-period
\* ledger row become visible together: the state in which add_member's INSERT
\* INTO members is committed holds a ledger row of the new member for the
\* period that is current at the add.
AddMemberAtomic ==
    [][\A s \in Sessions :
          (pc[s] = "add_insert" /\ AddInsert(s)) =>
              \A m \in members' \ members :
                  PaymentExists(payments', m.id, clock.month, clock.year)]_vars

\* C13: whenever no operation is in progress, every ledger row of the current
\* (month, year) that belongs to a member carries the member's due amount,
\* also when update_member of one session runs between the member scan and
\* the row insert of another session's ensure_payments_for_month.
CurrentPeriodSync ==
    (\A s \in Sessions : pc[s] = "idle") =>
        \A m \in members : \A r \in payments :
            (r.member_id = m.id /\ Current(r)) => r.amount = m.amount

====
